---- MODULE Spec2Model ----
(***************************************************************************)
(* Model of nydusd's daemon control plane (src/bin/nydusd/daemon.rs):      *)
(*   - the lifecycle state machine DaemonStateMachine and the event pump   *)
(*     DaemonStateMachineContext::kick_state_machine;                      *)
(*   - the mount table operations NydusDaemon::mount / remount / umount    *)
(*     over the virtual root (Vfs), the FsBackendCollection and the        *)
(*     UpgradeManager's mount opaques.                                     *)
(***************************************************************************)
EXTENDS Integers, Sequences, FiniteSets, TLC

VARIABLES
    sm,               \* DaemonStateMachineContext.sm: the state machine's state
    daemonState,      \* what NydusDaemon::get_state() returns
    event_collector,  \* the mpsc channel of lifecycle events (FIFO)
    result_sender,    \* the mpsc channel of replies (everything sent so far)
    pc,               \* where the pump thread is in its loop body
    it,               \* the locals of the pump's current loop iteration
    done,             \* the locals of the last iteration that sent its reply
    nsubmitted,       \* how many events were sent on the event channel
    vfs,              \* the virtual root: mountpoint -> backend and index
    collection,       \* FsBackendCollection: mountpoint -> FsBackendDesc
    opaques,          \* UpgradeManager's mount opaques: mountpoint -> opaque
    hasMgr,           \* whether upgrade_mgr() returns Some
    lastOp,           \* the last facade call: its name, mountpoint, result, calls made
    rtPre,            \* the mount table as it was before the mount that just succeeded
    ncalls,           \* how many facade calls were counted (where they are counted)
    from_i,           \* an i32 handed to DaemonState::from
    from_result,      \* what DaemonState::from made of it, or NoResult
    takeover,         \* a caller of trigger_takeover: where it is and what it saw
    thr,              \* the threads calling the facade: call, position, result
    collLock,         \* who holds the Mutex of backend_collection()
    mgrLock,          \* who holds the Mutex of upgrade_mgr()
    event_manager_run,\* EVENT_MANAGER_RUN, the process-wide flag the event loop watches
    registration,     \* the subscriber's registration in the event loop
    processed,        \* the last call of NydusDaemonSubscriber::process
    nprocessed        \* how many times process was called

pumpVars == <<sm, daemonState, event_collector, result_sender, pc, it, done, nsubmitted>>
mountVars == <<vfs, collection, opaques, hasMgr, lastOp, rtPre>>
convVars == <<from_i, from_result>>
concVars == <<thr, collLock, mgrLock>>
subVars == <<event_manager_run, registration, processed, nprocessed>>
sideVars == <<takeover, thr, collLock, mgrLock,
              event_manager_run, registration, processed, nprocessed>>
vars == <<sm, daemonState, event_collector, result_sender, pc, it, done, nsubmitted,
          vfs, collection, opaques, hasMgr, lastOp, rtPre, ncalls, from_i, from_result,
          takeover, thr, collLock, mgrLock,
          event_manager_run, registration, processed, nprocessed>>

(***************************************************************************)
(* Bounds of the model.                                                    *)
(***************************************************************************)
\* lifecycle events submitted in one behaviour
MaxEvents == 4
\* the wall clock reads 0..MaxClock
MaxClock == 1
\* lifecycle events and facade calls in one behaviour of the whole daemon
MaxDaemonEvents == 2
MaxCalls == 2
\* the integers converted are -MaxInt..MaxInt and the ends of i32
MaxInt == 60
\* calls of the facade by each of the concurrent threads
MaxThreadCalls == 2
\* calls of the shutdown subscriber by the event loop
MaxProcessed == 3

(***************************************************************************)
(* DaemonState and the lifecycle state machine.                            *)
(***************************************************************************)
DaemonState == {"INIT", "RUNNING", "UPGRADING", "INTERRUPTED", "STOPPED", "UNKNOWN"}

\* `s as i32`: the discriminants of the enum.
ToInt(s) ==
    CASE s = "INIT" -> 1
      [] s = "RUNNING" -> 2
      [] s = "UPGRADING" -> 3
      [] s = "INTERRUPTED" -> 4
      [] s = "STOPPED" -> 5
      [] s = "UNKNOWN" -> 6

\* Mutant: the arm of STOPPED is missing.
FromIntNoStopped(n) ==
    CASE n = 1 -> "INIT"
      [] n = 2 -> "RUNNING"
      [] n = 3 -> "UPGRADING"
      [] n = 4 -> "INTERRUPTED"
      [] OTHER -> "UNKNOWN"

\* impl From<i32> for DaemonState
FromInt(n) ==
    CASE n = 1 -> "INIT"
      [] n = 2 -> "RUNNING"
      [] n = 3 -> "UPGRADING"
      [] n = 4 -> "INTERRUPTED"
      [] n = 5 -> "STOPPED"
      [] OTHER -> "UNKNOWN"

\* The i32 values tried.
I32Inputs == (-MaxInt..MaxInt) \cup {-2147483647 - 1, 2147483647}

NoResult == "none"

InitConv == from_i = 1 /\ from_result = NoResult

\* DaemonState::from(from_i)
Convert ==
    /\ from_result = NoResult
    /\ from_result' = FromInt(from_i)
    /\ UNCHANGED from_i

\* DaemonState::from(s as i32)
RoundTrip(s) ==
    /\ from_i' = ToInt(s)
    /\ from_result' = FromInt(ToInt(s))

DaemonStateMachineState == {"Init", "Running", "Upgrading", "Interrupted", "Die"}

DaemonStateMachineInput == {"Mount", "Takeover", "Stop", "Exit", "Successful"}

DaemonStateMachineOutput == {"StartService", "Restore", "Umount", "TerminateFuseService"}

\* Option<DaemonStateMachineOutput>::None
NoOutput == "None"

\* A transition the state_machine! table does not list: consume() returns Err.
Rejected == [accepted |-> FALSE, to |-> "Die", output |-> NoOutput]

Accept(to, output) == [accepted |-> TRUE, to |-> to, output |-> output]

\* Mutant: Interrupted(Stop) => Die[Umount], and Running also accepts Mount.
TransitionExtra(s, i) ==
    CASE s = "Init" /\ i = "Mount"            -> Accept("Running", "StartService")
      [] s = "Init" /\ i = "Takeover"         -> Accept("Upgrading", "Restore")
      [] s = "Init" /\ i = "Stop"             -> Accept("Die", "Umount")
      [] s = "Running" /\ i = "Exit"          -> Accept("Interrupted", "TerminateFuseService")
      [] s = "Running" /\ i = "Stop"          -> Accept("Die", "Umount")
      [] s = "Running" /\ i = "Mount"         -> Accept("Running", "StartService")
      [] s = "Upgrading" /\ i = "Successful"  -> Accept("Running", "StartService")
      [] s = "Interrupted" /\ i = "Stop"      -> Accept("Die", "Umount")
      [] OTHER                                -> Rejected

\* state_machine! { DaemonStateMachine(Init) ... }: StateMachine::consume.
Transition(s, i) ==
    CASE s = "Init" /\ i = "Mount"            -> Accept("Running", "StartService")
      [] s = "Init" /\ i = "Takeover"         -> Accept("Upgrading", "Restore")
      [] s = "Init" /\ i = "Stop"             -> Accept("Die", "Umount")
      [] s = "Running" /\ i = "Exit"          -> Accept("Interrupted", "TerminateFuseService")
      [] s = "Running" /\ i = "Stop"          -> Accept("Die", "Umount")
      [] s = "Upgrading" /\ i = "Successful"  -> Accept("Running", "StartService")
      [] s = "Interrupted" /\ i = "Stop"      -> Accept("Die", NoOutput)
      [] OTHER                                -> Rejected

(***************************************************************************)
(* The daemon hooks the pump calls. start, disconnect and restore are      *)
(* implemented by the concrete daemon and may fail; hookOk is the outcome  *)
(* of the one fallible hook the action calls.                              *)
(***************************************************************************)
Ok == "Ok"

HookError(hook) == "Err(" \o hook \o ")"

\* Mutant: StartService and Umount publish the new state before the hook ran.
RunActionEager(a, hookOk, ds) ==
    CASE a = "StartService" ->
            [r |-> IF hookOk THEN Ok ELSE HookError("start"),
             state |-> "RUNNING",
             calls |-> <<"set_state", "start">>]
      [] a = "TerminateFuseService" ->
            [r |-> Ok, state |-> "INTERRUPTED", calls |-> <<"interrupt", "set_state">>]
      [] a = "Umount" ->
            [r |-> IF hookOk THEN Ok ELSE HookError("disconnect"),
             state |-> "STOPPED",
             calls |-> <<"set_state", "disconnect", "interrupt">>]
      [] a = "Restore" ->
            [r |-> IF hookOk THEN Ok ELSE HookError("restore"),
             state |-> "UPGRADING",
             calls |-> <<"set_state", "restore">>]
      [] OTHER ->
            [r |-> Ok, state |-> ds, calls |-> <<>>]

\* Mutant: Restore publishes UPGRADING only after restore succeeded.
RunActionRestoreLate(a, hookOk, ds) ==
    CASE a = "StartService" ->
            IF hookOk
            THEN [r |-> Ok, state |-> "RUNNING", calls |-> <<"start", "set_state">>]
            ELSE [r |-> HookError("start"), state |-> ds, calls |-> <<"start">>]
      [] a = "TerminateFuseService" ->
            [r |-> Ok, state |-> "INTERRUPTED", calls |-> <<"interrupt", "set_state">>]
      [] a = "Umount" ->
            IF hookOk
            THEN [r |-> Ok, state |-> "STOPPED",
                  calls |-> <<"disconnect", "interrupt", "set_state">>]
            ELSE [r |-> HookError("disconnect"), state |-> ds, calls |-> <<"disconnect">>]
      [] a = "Restore" ->
            IF hookOk
            THEN [r |-> Ok, state |-> "UPGRADING", calls |-> <<"restore", "set_state">>]
            ELSE [r |-> HookError("restore"), state |-> ds, calls |-> <<"restore">>]
      [] OTHER ->
            [r |-> Ok, state |-> ds, calls |-> <<>>]

\* The `match action` of kick_state_machine: the reply, the observable state
\* afterwards and the daemon hooks called, in order.
RunAction(a, hookOk, ds) ==
    CASE a = "StartService" ->
            IF hookOk
            THEN [r |-> Ok, state |-> "RUNNING", calls |-> <<"start", "set_state">>]
            ELSE [r |-> HookError("start"), state |-> ds, calls |-> <<"start">>]
      [] a = "TerminateFuseService" ->
            [r |-> Ok, state |-> "INTERRUPTED", calls |-> <<"interrupt", "set_state">>]
      [] a = "Umount" ->
            IF hookOk
            THEN [r |-> Ok, state |-> "STOPPED",
                  calls |-> <<"disconnect", "interrupt", "set_state">>]
            ELSE [r |-> HookError("disconnect"), state |-> ds, calls |-> <<"disconnect">>]
      [] a = "Restore" ->
            [r |-> IF hookOk THEN Ok ELSE HookError("restore"),
             state |-> "UPGRADING",
             calls |-> <<"set_state", "restore">>]
      [] OTHER ->
            [r |-> Ok, state |-> ds, calls |-> <<>>]

\* Mutant: the rollback is forgotten.
RollbackNever(r, cur, last) == cur

\* The map_err closure: self.sm = sm_rollback when the action failed.
Rollback(r, cur, last) == IF r = Ok THEN cur ELSE last

\* Mutant: the receiver hands out the newest event first.
RecvIndexNewest(q) == Len(q)

\* Receiver::recv takes the oldest event of the channel.
RecvIndex(q) == 1

RemoveAt(q, k) == [j \in 1..(Len(q) - 1) |-> IF j < k THEN q[j] ELSE q[j + 1]]

\* Mutant: a failed action's result is dropped instead of sent.
ReplySentOkOnly(q, reply) == IF reply.r = Ok THEN Append(q, reply) ELSE q

\* self.result_sender.send(r)
ReplySent(q, reply) == Append(q, reply)

NoIteration ==
    [id |-> 0, input |-> "None", obs |-> "INIT", alone |-> TRUE, last |-> "Init",
     pre |-> "INIT", accepted |-> TRUE, action |-> NoOutput, r |-> Ok, calls |-> <<>>]

InitPump ==
    /\ sm = "Init"
    /\ daemonState = "INIT"
    /\ event_collector = <<>>
    /\ result_sender = <<>>
    /\ pc = "recv"
    /\ it = NoIteration
    /\ done = NoIteration
    /\ nsubmitted = 0

\* DaemonStateMachineSubscriber::on_event's send half, from any thread: the
\* event is tagged with its submission number, the observable state at that
\* moment and whether nothing else was queued or being handled.
Submit(input) ==
    /\ nsubmitted < MaxEvents
    /\ nsubmitted' = nsubmitted + 1
    /\ event_collector' = Append(event_collector,
            [id |-> nsubmitted + 1, input |-> input, obs |-> daemonState,
             alone |-> (pc = "recv" /\ event_collector = <<>>)])
    /\ UNCHANGED <<sm, daemonState, result_sender, pc, it, done>>

\* recv(), the snapshot of the state and sm.consume(&event); the closure of
\* unwrap_or_else panics on a rejected input and the thread is gone.
PumpRecv ==
    /\ pc = "recv"
    /\ event_collector # <<>>
    /\ LET k == RecvIndex(event_collector)
           event == event_collector[k]
           t == Transition(sm, event.input)
       IN /\ event_collector' = RemoveAt(event_collector, k)
          /\ it' = [id |-> event.id, input |-> event.input, obs |-> event.obs,
                    alone |-> event.alone, last |-> sm, pre |-> daemonState,
                    accepted |-> t.accepted, action |-> t.output, r |-> Ok,
                    calls |-> <<>>]
          /\ IF t.accepted
             THEN sm' = t.to /\ pc' = "action"
             ELSE sm' = sm /\ pc' = "panicked"
    /\ UNCHANGED <<daemonState, result_sender, done, nsubmitted>>

\* The match on the action and the map_err rollback.
PumpAction ==
    /\ pc = "action"
    /\ \E hookOk \in BOOLEAN :
         LET res == RunAction(it.action, hookOk, daemonState)
         IN /\ daemonState' = res.state
            /\ sm' = Rollback(res.r, sm, it.last)
            /\ it' = [it EXCEPT !.r = res.r, !.calls = res.calls]
    /\ pc' = "send"
    /\ UNCHANGED <<event_collector, result_sender, done, nsubmitted>>

\* self.result_sender.send(r).unwrap(), then the loop starts over.
PumpSend ==
    /\ pc = "send"
    /\ result_sender' = ReplySent(result_sender, [id |-> it.id, r |-> it.r])
    /\ done' = it
    /\ pc' = "recv"
    /\ UNCHANGED <<sm, daemonState, event_collector, it, nsubmitted>>

Pump == PumpRecv \/ PumpAction \/ PumpSend

(***************************************************************************)
(* Mount commands.  Strings that the code inspects are sequences of        *)
(* characters; a config text is named by the file it would be read from    *)
(* and ParseJson gives what serde_json::from_str makes of it.              *)
(***************************************************************************)
Mountpoints == {"/m", "/n"}

FsBackendType == {"Rafs", "PassthroughFs"}

Sources == {"/boot"}

\* prefetch entries: "/f", "f" and the empty string; the lists tried have one
\* entry, or a legal entry followed by an illegal one
PrefetchPaths == {<<"/", "f">>, <<"f">>, <<>>}

\* Option<Vec<String>>: <<>> is None, <<files>> is Some(files)
PrefetchOptions ==
    {<<>>} \cup {<< <<p>> >> : p \in PrefetchPaths}
           \cup {<< <<p, q>> >> : p \in {<<"/", "f">>}, q \in {<<"f">>}}

JNull == [null |-> TRUE]
JStr(s) == [str |-> s]
JObj(f) == [obj |-> f]
IsObj(v) == "obj" \in DOMAIN v

CfgEmpty == "empty"
CfgLocalfs == "localfs.json"
CfgRegistry == "registry.json"
CfgOss == "oss.json"

Configs == {CfgEmpty, CfgRegistry}

BackendJson(type, config) ==
    JObj([device |-> JObj([backend |-> JObj([type |-> JStr(type), config |-> JObj(config)])]),
          mode |-> JStr("direct")])

\* serde_json::from_str(&cmd.config): the empty text is no JSON document.
ParseJson(c) ==
    CASE c = CfgLocalfs ->
            [ok |-> TRUE, value |-> BackendJson("localfs", [dir |-> JStr("/blobs")])]
      [] c = CfgRegistry ->
            [ok |-> TRUE,
             value |-> BackendJson("registry",
                          [host |-> JStr("example.org"), auth |-> JStr("secret"),
                           registry_token |-> JStr("token")])]
      [] c = CfgOss ->
            [ok |-> TRUE,
             value |-> BackendJson("oss",
                          [endpoint |-> JStr("example.org"),
                           access_key_id |-> JStr("key-id"),
                           access_key_secret |-> JStr("key-secret")])]
      [] OTHER -> [ok |-> FALSE, value |-> JNull]

\* The commands tried: a Rafs command carries any of the configs, and
\* "Passthrough Fs has no config ever input".
FsBackendMountCmd ==
    {cmd \in [fs_type : FsBackendType, source : Sources, config : Configs,
              mountpoint : Mountpoints, prefetch_files : PrefetchOptions] :
        cmd.fs_type = "PassthroughFs" => cmd.config = CfgEmpty}

\* Commands that differ in what their config says of the storage backend:
\* Rafs commands with each of the configs, a passthrough command without.
ConfigMountCmd ==
    {cmd \in [fs_type : FsBackendType, source : Sources,
              config : {CfgEmpty, CfgRegistry, CfgOss},
              mountpoint : Mountpoints, prefetch_files : {<<>>}] :
        cmd.fs_type = "PassthroughFs" => cmd.config = CfgEmpty}

FsBackendUmountCmd == [mountpoint : Mountpoints]

\* Value's Index: a missing key or a non-object reads as Null.
JsonIndex(v, k) == IF IsObj(v) /\ k \in DOMAIN v.obj THEN v.obj[k] ELSE JNull

\* v[k].take() through IndexMut: Null becomes an object, the key is inserted
\* when missing, and its value is replaced by Null.
JsonTake(v, k) ==
    IF IsObj(v)
    THEN JObj([x \in DOMAIN v.obj \cup {k} |-> IF x = k THEN JNull ELSE v.obj[x]])
    ELSE JObj([x \in {k} |-> JNull])

\* v[k] = w through IndexMut
JsonSet(v, k, w) ==
    IF IsObj(v)
    THEN JObj([x \in DOMAIN v.obj \cup {k} |-> IF x = k THEN w ELSE v.obj[x]])
    ELSE JObj([x \in {k} |-> w])

\* config["device"]["backend"]["config"][key].take()
TakeBackendConfigKey(config, key) ==
    LET device == JsonIndex(config, "device")
        backend == JsonIndex(device, "backend")
        bconfig == JsonIndex(backend, "config")
    IN JsonSet(config, "device",
           JsonSet(device, "backend",
               JsonSet(backend, "config", JsonTake(bconfig, key))))

BackendTypeOf(config) ==
    JsonIndex(JsonIndex(JsonIndex(config, "device"), "backend"), "type")

\* Mutant: only the oss backend is washed.
SanitizeOssOnly(config) ==
    IF BackendTypeOf(config) = JStr("oss")
    THEN TakeBackendConfigKey(TakeBackendConfigKey(config, "access_key_id"),
                              "access_key_secret")
    ELSE config

\* The wash of FsBackendCollection::add.
Sanitize(config) ==
    IF BackendTypeOf(config) = JStr("oss")
    THEN TakeBackendConfigKey(TakeBackendConfigKey(config, "access_key_id"),
                              "access_key_secret")
    ELSE IF BackendTypeOf(config) = JStr("registry")
    THEN TakeBackendConfigKey(TakeBackendConfigKey(config, "auth"), "registry_token")
    ELSE config

\* Mutant: the verification stops after the first entry.
PrefetchVerifyFirstOnly(input) ==
    \/ input = <<>>
    \/ input[1] = <<>>
    \/ (Len(input[1][1]) > 0 /\ input[1][1][1] = "/")

\* input_prefetch_files_verify: every entry starts with the root component.
PrefetchVerify(input) ==
    \/ input = <<>>
    \/ \A j \in 1..Len(input[1]) : Len(input[1][j]) > 0 /\ input[1][j][1] = "/"

\* Mutant: the lookup never finds a backend.
IsMountedNever(v, mp) == FALSE

\* backend_from_mountpoint(mp).is_ok(): get_rootfs finds a backend at mp.
IsMounted(v, mp) == mp \in DOMAIN v

\* Mutant: umount ignores the lookup's error.
UmountLookupIgnored(v, mp) == TRUE

\* umount's `let _ = self.backend_from_mountpoint(&cmd.mountpoint)?`
UmountLookup(v, mp) == IsMounted(v, mp)

MapPut(f, k, v) == [x \in DOMAIN f \cup {k} |-> IF x = k THEN v ELSE f[x]]

MapDel(f, k) == [x \in DOMAIN f \ {k} |-> f[x]]

\* Mutant: the descriptor is left behind.
CollectionDelNothing(c, id) == c

\* FsBackendCollection::del
CollectionDel(c, id) == MapDel(c, id)

\* Mutant: add returns Ok without inserting the descriptor.
CollectionAddNothing(c, id, cmd, now) == c

\* FsBackendCollection::add, given that the config parsed where it had to.
CollectionAdd(c, id, cmd, now) ==
    MapPut(c, id,
        [backend_type |-> cmd.fs_type,
         mountpoint |-> cmd.mountpoint,
         mounted_time |-> now,
         config |-> IF cmd.fs_type = "Rafs"
                    THEN Sanitize(ParseJson(cmd.config).value)
                    ELSE JNull])

\* FsBackendCollection::add fails only when a Rafs config is no JSON.
CollectionAddOk(cmd) == cmd.fs_type # "Rafs" \/ ParseJson(cmd.config).ok

\* The index Vfs::mount hands out: a token of the virtual root, named here by
\* the mountpoint it was handed out for.
VfsIndex(mp) == <<"index", mp>>

\* Mutant: the downcast succeeds for any backend.
DowncastAny(backend) == TRUE

\* any_fs.downcast_ref::<Rafs>() is Some
DowncastRafs(backend) == backend.kind = "Rafs"

\* What fs_backend_factory builds.
NewBackend(cmd) ==
    [kind |-> cmd.fs_type,
     source |-> cmd.source,
     config |-> IF cmd.fs_type = "Rafs" THEN cmd.config ELSE CfgEmpty]

\* fs_backend_factory's result: the prefetch check first, then the build of
\* the backend, which fails on a config that does not parse and may fail in
\* the collaborators for other reasons (buildOk).
FactoryResult(cmd, buildOk) ==
    IF ~PrefetchVerify(cmd.prefetch_files) THEN "Common(Illegal prefetch list)"
    ELSE IF cmd.fs_type = "Rafs"
         THEN IF ParseJson(cmd.config).ok /\ buildOk THEN Ok ELSE "Rafs"
         ELSE IF buildOk THEN Ok ELSE "PassthroughFs"

(***************************************************************************)
(* The facade: NydusDaemon::mount, remount and umount, each run from its   *)
(* first line to its return.  buildOk, vfsOk, mgrOk, ... are the outcomes  *)
(* of the collaborators (backend build, Vfs, UpgradeManager); now is what  *)
(* chrono::Local::now() returns.                                           *)
(***************************************************************************)
NoRoundTrip == [stage |-> "none"]

Snapshot(stage, mp) ==
    [stage |-> stage, mountpoint |-> mp, mounted |-> DOMAIN vfs,
     keys |-> DOMAIN collection, opaques |-> opaques]

InitMount ==
    /\ vfs = <<>>
    /\ collection = <<>>
    /\ opaques = <<>>
    /\ hasMgr \in BOOLEAN
    /\ lastOp = [op |-> "none", mountpoint |-> "none", prefetch_files |-> <<>>,
                 result |-> Ok, calls |-> <<>>]
    /\ rtPre = NoRoundTrip

\* The call that just returned: its name, the mountpoint and (for mount) the
\* prefetch list it was given, its result and the collaborators it called.
Returned(op, cmd, result, calls) ==
    lastOp' = [op |-> op, mountpoint |-> cmd.mountpoint,
               prefetch_files |-> IF op = "mount" THEN cmd.prefetch_files ELSE <<>>,
               result |-> result, calls |-> calls]

\* upgrade::add_mounts_state: records the opaque (cmd + index) of the mountpoint.
AddMountsState(o, cmd, index) == MapPut(o, cmd.mountpoint, [cmd |-> cmd, index |-> index])

\* upgrade::remove_mounts_state: erases the opaque of the mountpoint.
RemoveMountsState(o, mp) == MapDel(o, mp)

\* upgrade::update_mounts_state: replaces the command of the recorded opaque.
UpdateMountsState(o, cmd) == [o EXCEPT ![cmd.mountpoint].cmd = cmd]

Mount(cmd) ==
    LET mp == cmd.mountpoint
        index == VfsIndex(mp)
        mounted == MapPut(vfs, mp, [backend |-> NewBackend(cmd), index |-> index])
    IN
    IF IsMounted(vfs, mp)
    THEN /\ Returned("mount", cmd, "Vfs(AlreadyMounted)", <<"get_rootfs">>)
         /\ rtPre' = NoRoundTrip
         /\ UNCHANGED <<vfs, collection, opaques, hasMgr>>
    ELSE \E buildOk \in BOOLEAN :
      IF FactoryResult(cmd, buildOk) # Ok
      THEN /\ Returned("mount", cmd, FactoryResult(cmd, buildOk),
                       <<"get_rootfs", "fs_backend_factory">>)
           /\ rtPre' = NoRoundTrip
           /\ UNCHANGED <<vfs, collection, opaques, hasMgr>>
      ELSE \E vfsOk \in BOOLEAN :
        IF ~vfsOk
        THEN /\ Returned("mount", cmd, "Vfs(Mount)",
                         <<"get_rootfs", "fs_backend_factory", "vfs.mount">>)
             /\ rtPre' = NoRoundTrip
             /\ UNCHANGED <<vfs, collection, opaques, hasMgr>>
        ELSE IF ~CollectionAddOk(cmd)
        THEN /\ vfs' = mounted
             /\ Returned("mount", cmd, "Serde",
                         <<"get_rootfs", "fs_backend_factory", "vfs.mount", "add">>)
             /\ rtPre' = NoRoundTrip
             /\ UNCHANGED <<collection, opaques, hasMgr>>
        ELSE \E now \in 0..MaxClock :
          /\ vfs' = mounted
          /\ collection' = CollectionAdd(collection, mp, cmd, now)
          /\ UNCHANGED hasMgr
          /\ IF ~hasMgr
             THEN /\ Returned("mount", cmd, Ok,
                              <<"get_rootfs", "fs_backend_factory", "vfs.mount", "add">>)
                  /\ rtPre' = Snapshot("mounted", mp)
                  /\ UNCHANGED opaques
             ELSE \E mgrOk \in BOOLEAN :
               IF mgrOk
               THEN /\ opaques' = AddMountsState(opaques, cmd, index)
                    /\ Returned("mount", cmd, Ok,
                                <<"get_rootfs", "fs_backend_factory", "vfs.mount", "add",
                                  "add_mounts_state">>)
                    /\ rtPre' = Snapshot("mounted", mp)
               ELSE /\ Returned("mount", cmd, "UpgradeManager",
                                <<"get_rootfs", "fs_backend_factory", "vfs.mount", "add",
                                  "add_mounts_state">>)
                    /\ rtPre' = NoRoundTrip
                    /\ UNCHANGED opaques

Umount(cmd) ==
    LET mp == cmd.mountpoint
        paired == rtPre.stage = "mounted" /\ rtPre.mountpoint = mp
    IN
    IF ~UmountLookup(vfs, mp)
    THEN /\ Returned("umount", cmd, "Vfs(Common)", <<"get_rootfs">>)
         /\ rtPre' = NoRoundTrip
         /\ UNCHANGED <<vfs, collection, opaques, hasMgr>>
    ELSE \E vfsOk \in BOOLEAN :
      IF ~vfsOk
      THEN /\ Returned("umount", cmd, "Vfs(Umount)", <<"get_rootfs", "vfs.umount">>)
           /\ rtPre' = NoRoundTrip
           /\ UNCHANGED <<vfs, collection, opaques, hasMgr>>
      ELSE /\ vfs' = MapDel(vfs, mp)
           /\ collection' = CollectionDel(collection, mp)
           /\ UNCHANGED hasMgr
           /\ IF ~hasMgr
              THEN /\ Returned("umount", cmd, Ok, <<"get_rootfs", "vfs.umount", "del">>)
                   /\ rtPre' = IF paired THEN [stage |-> "unmounted"]
                               ELSE NoRoundTrip
                   /\ UNCHANGED opaques
              ELSE \E mgrOk \in BOOLEAN :
                IF mgrOk
                THEN /\ opaques' = RemoveMountsState(opaques, mp)
                     /\ Returned("umount", cmd, Ok,
                                 <<"get_rootfs", "vfs.umount", "del", "remove_mounts_state">>)
                     /\ rtPre' = IF paired THEN [stage |-> "unmounted"]
                                 ELSE NoRoundTrip
                ELSE /\ Returned("umount", cmd, "UpgradeManager",
                                 <<"get_rootfs", "vfs.umount", "del", "remove_mounts_state">>)
                     /\ rtPre' = NoRoundTrip
                     /\ UNCHANGED opaques

Remount(cmd) ==
    LET mp == cmd.mountpoint
        updated == [vfs[mp] EXCEPT !.backend.config = cmd.config,
                                   !.backend.source = cmd.source]
    IN
    /\ rtPre' = NoRoundTrip
    /\ UNCHANGED <<collection, hasMgr>>
    /\ IF ~IsMounted(vfs, mp)
       THEN /\ Returned("remount", cmd, "Vfs(Common)", <<"get_rootfs">>)
            /\ UNCHANGED <<vfs, opaques>>
       ELSE \E configOk \in BOOLEAN :
         IF ~(ParseJson(cmd.config).ok /\ configOk)
         THEN /\ Returned("remount", cmd, "Rafs", <<"get_rootfs", "RafsConfig::from_str">>)
              /\ UNCHANGED <<vfs, opaques>>
         ELSE \E sourceOk \in BOOLEAN :
           IF ~sourceOk
           THEN /\ Returned("remount", cmd, "Rafs",
                            <<"get_rootfs", "RafsConfig::from_str", "RafsIoRead::from_file">>)
                /\ UNCHANGED <<vfs, opaques>>
           ELSE IF ~DowncastRafs(vfs[mp].backend)
           THEN /\ Returned("remount", cmd, "FsTypeMismatch(to rafs)",
                            <<"get_rootfs", "RafsConfig::from_str", "RafsIoRead::from_file">>)
                /\ UNCHANGED <<vfs, opaques>>
           ELSE \E update \in {Ok, "Unsupported", "Rafs"} :
             IF update # Ok
             THEN /\ Returned("remount", cmd, update,
                              <<"get_rootfs", "RafsConfig::from_str",
                                "RafsIoRead::from_file", "update">>)
                  /\ UNCHANGED <<vfs, opaques>>
             ELSE /\ vfs' = MapPut(vfs, mp, updated)
                  /\ IF ~hasMgr
                     THEN /\ Returned("remount", cmd, Ok,
                                      <<"get_rootfs", "RafsConfig::from_str",
                                        "RafsIoRead::from_file", "update">>)
                          /\ UNCHANGED opaques
                     ELSE \E mgrOk \in BOOLEAN :
                       IF mgrOk /\ mp \in DOMAIN opaques
                       THEN /\ opaques' = UpdateMountsState(opaques, cmd)
                            /\ Returned("remount", cmd, Ok,
                                        <<"get_rootfs", "RafsConfig::from_str",
                                          "RafsIoRead::from_file", "update",
                                          "update_mounts_state">>)
                       ELSE /\ Returned("remount", cmd, "UpgradeManager",
                                        <<"get_rootfs", "RafsConfig::from_str",
                                          "RafsIoRead::from_file", "update",
                                          "update_mounts_state">>)
                            /\ UNCHANGED opaques

\* export_info: the DaemonInfo that is serialized, as far as the daemon owns
\* it (version, id and supervisor come from the concrete daemon).
ExportInfo == [state |-> daemonState, backend_collection |-> collection]

(***************************************************************************)
(* trigger_takeover, run by one caller thread.  on_event is synchronous:   *)
(* it sends the event to the pump and blocks until the pump's reply.       *)
(***************************************************************************)
NoTakeover ==
    [pc |-> "idle", id |-> 0, called_in |-> "Init", first |-> "none",
     result |-> "none", sent |-> <<>>, calls |-> <<>>]

InitTakeover == takeover = NoTakeover

\* Mutant: the first ? is dropped, the second event is submitted regardless.
TakeoverContinuesAlways(r) == TRUE

\* self.on_event(DaemonStateMachineInput::Takeover)?  goes on only after Ok.
TakeoverContinues(r) == r = Ok

\* on_event's receive half: the reply to the event the caller is waiting for.
OnEventReply(id) == {result_sender[k].r : k \in {j \in DOMAIN result_sender : result_sender[j].id = id}}

\* trigger_takeover is entered and on_event sends Takeover.
TakeoverSendTakeover ==
    /\ takeover.pc = "idle"
    /\ pc = "recv" /\ event_collector = <<>>
    /\ Submit("Takeover")
    /\ takeover' = [takeover EXCEPT !.pc = "wait_takeover", !.id = nsubmitted + 1,
                                    !.called_in = sm, !.sent = <<"Takeover">>]

\* on_event returns the reply to Takeover; ? returns an error to the caller.
TakeoverRecvTakeover ==
    /\ takeover.pc = "wait_takeover"
    /\ \E r \in OnEventReply(takeover.id) :
         takeover' = [takeover EXCEPT
                        !.pc = IF TakeoverContinues(r) THEN "send_successful" ELSE "returned",
                        !.first = r,
                        !.result = IF TakeoverContinues(r) THEN "none" ELSE r,
                        !.calls = done.calls]
    /\ UNCHANGED pumpVars

\* on_event sends Successful.
TakeoverSendSuccessful ==
    /\ takeover.pc = "send_successful"
    /\ Submit("Successful")
    /\ takeover' = [takeover EXCEPT !.pc = "wait_successful", !.id = nsubmitted + 1,
                                    !.sent = Append(takeover.sent, "Successful")]

\* on_event returns the reply to Successful; ? returns an error, else Ok(()).
TakeoverRecvSuccessful ==
    /\ takeover.pc = "wait_successful"
    /\ \E r \in OnEventReply(takeover.id) :
         takeover' = [takeover EXCEPT !.pc = "returned", !.result = r,
                                      !.calls = takeover.calls \o done.calls]
    /\ UNCHANGED pumpVars

(***************************************************************************)
(* The facade called from several threads at once.  Each call is cut into  *)
(* steps at its accesses to what the threads share: the virtual root, the  *)
(* Mutex of backend_collection() and the Mutex of upgrade_mgr().  What a   *)
(* call does on its own locals between two such accesses belongs to the    *)
(* step before.                                                            *)
(***************************************************************************)
Threads == {"t1", "t2"}

NoThread == "nobody"

\* The concurrent calls are all about one mountpoint.
ConcMountpoints == {"/m"}

\* Their mount commands: either backend type, a config that parses, no
\* prefetch list.
ConcMountCmd ==
    {cmd \in FsBackendMountCmd :
        /\ cmd.mountpoint \in ConcMountpoints
        /\ cmd.prefetch_files = <<>>
        /\ cmd.fs_type = "Rafs" => cmd.config = CfgRegistry}

ConcUmountCmd == {cmd \in FsBackendUmountCmd : cmd.mountpoint \in ConcMountpoints}

NoRootfs == [backend |-> [kind |-> "none"]]

IdleThread ==
    [op |-> "none", cmd |-> [mountpoint |-> "none"], pc |-> "idle", result |-> "none",
     n |-> 0, rootfs |-> NoRootfs]

InitConc ==
    /\ thr = [t \in Threads |-> IdleThread]
    /\ collLock = NoThread
    /\ mgrLock = NoThread

\* Mutant: the guard is bound to a variable that lives on.
KeepGuard(holder) == holder

\* The MutexGuard is a temporary (or the binding of an if-let): it is
\* dropped at the end of its statement (or block), which unlocks the Mutex.
DropGuard(holder) == NoThread

\* A thread enters mount, remount, umount or export_info.
Call(t, op, cmd) ==
    /\ thr[t].pc = "idle"
    /\ thr[t].n < MaxThreadCalls
    /\ thr' = [thr EXCEPT ![t] = [op |-> op, cmd |-> cmd,
                                  pc |-> IF op = "export_info" THEN "coll_lock" ELSE "lookup",
                                  result |-> "none", n |-> thr[t].n + 1,
                                  rootfs |-> NoRootfs]]
    /\ UNCHANGED <<vfs, collection, opaques, hasMgr, collLock, mgrLock>>

\* The call of thread t returns: its locals are gone, its result is kept.
Ret(t, result) ==
    thr' = [thr EXCEPT ![t].pc = "idle", ![t].result = result,
                       ![t].cmd = IdleThread.cmd, ![t].rootfs = NoRootfs]

Goto(t, label) == thr' = [thr EXCEPT ![t].pc = label]

\* if let Some(mut mgr_guard) = self.upgrade_mgr(): None means Ok(()) at once.
AfterCollection(t) == IF hasMgr THEN Goto(t, "mgr_lock") ELSE Ret(t, Ok)

\* mount: backend_from_mountpoint(..).is_ok() and fs_backend_factory(&cmd)?
MountLookup(t) ==
    /\ thr[t].op = "mount" /\ thr[t].pc = "lookup"
    /\ IF IsMounted(vfs, thr[t].cmd.mountpoint)
       THEN Ret(t, "Vfs(AlreadyMounted)")
       ELSE \E buildOk \in BOOLEAN :
              IF FactoryResult(thr[t].cmd, buildOk) = Ok
              THEN Goto(t, "vfs_mount")
              ELSE Ret(t, FactoryResult(thr[t].cmd, buildOk))
    /\ UNCHANGED <<vfs, collection, opaques, hasMgr, collLock, mgrLock>>

\* mount: self.get_vfs().mount(backend, &cmd.mountpoint)
MountVfs(t) ==
    /\ thr[t].op = "mount" /\ thr[t].pc = "vfs_mount"
    /\ \E vfsOk \in BOOLEAN :
         LET cmd == thr[t].cmd
         IN IF vfsOk
            THEN /\ vfs' = MapPut(vfs, cmd.mountpoint,
                                  [backend |-> NewBackend(cmd),
                                   index |-> VfsIndex(cmd.mountpoint)])
                 /\ Goto(t, "coll_lock")
            ELSE /\ Ret(t, "Vfs(Mount)")
                 /\ UNCHANGED vfs
    /\ UNCHANGED <<collection, opaques, hasMgr, collLock, mgrLock>>

\* umount: backend_from_mountpoint(&cmd.mountpoint)?
UmountLookupStep(t) ==
    /\ thr[t].op = "umount" /\ thr[t].pc = "lookup"
    /\ IF UmountLookup(vfs, thr[t].cmd.mountpoint)
       THEN Goto(t, "vfs_umount")
       ELSE Ret(t, "Vfs(Common)")
    /\ UNCHANGED <<vfs, collection, opaques, hasMgr, collLock, mgrLock>>

\* umount: self.get_vfs().umount(&cmd.mountpoint); nothing can be unmounted
\* where nothing is mounted any more.
UmountVfs(t) ==
    /\ thr[t].op = "umount" /\ thr[t].pc = "vfs_umount"
    /\ \E vfsOk \in BOOLEAN :
         LET mp == thr[t].cmd.mountpoint
         IN IF vfsOk /\ mp \in DOMAIN vfs
            THEN /\ vfs' = MapDel(vfs, mp)
                 /\ Goto(t, "coll_lock")
            ELSE /\ Ret(t, "Vfs(Umount)")
                 /\ UNCHANGED vfs
    /\ UNCHANGED <<collection, opaques, hasMgr, collLock, mgrLock>>

\* remount: the lookup, RafsConfig::from_str, RafsIoRead::from_file and the
\* downcast of the backend that the lookup returned.
RemountLookup(t) ==
    /\ thr[t].op = "remount" /\ thr[t].pc = "lookup"
    /\ LET mp == thr[t].cmd.mountpoint
       IN IF ~IsMounted(vfs, mp)
          THEN Ret(t, "Vfs(Common)")
          ELSE \E localOk \in BOOLEAN :
                 IF ~localOk
                 THEN Ret(t, "Rafs")
                 ELSE IF ~DowncastRafs(vfs[mp].backend)
                 THEN Ret(t, "FsTypeMismatch(to rafs)")
                 ELSE thr' = [thr EXCEPT ![t].pc = "update", ![t].rootfs = vfs[mp]]
    /\ UNCHANGED <<vfs, collection, opaques, hasMgr, collLock, mgrLock>>

\* remount: rafs.update(..) on the backend that the lookup returned, which
\* the virtual root may have dropped since.
RemountUpdate(t) ==
    /\ thr[t].op = "remount" /\ thr[t].pc = "update"
    /\ \E update \in {Ok, "Unsupported", "Rafs"} :
         LET cmd == thr[t].cmd
             mp == cmd.mountpoint
             updated == [thr[t].rootfs EXCEPT !.backend.config = cmd.config,
                                              !.backend.source = cmd.source]
         IN IF update = Ok
            THEN /\ vfs' = IF mp \in DOMAIN vfs /\ vfs[mp] = thr[t].rootfs
                           THEN MapPut(vfs, mp, updated)
                           ELSE vfs
                 /\ AfterCollection(t)
            ELSE /\ Ret(t, update)
                 /\ UNCHANGED vfs
    /\ UNCHANGED <<collection, opaques, hasMgr, collLock, mgrLock>>

\* self.backend_collection(): blocks until the Mutex is free.
CollLock(t) ==
    /\ thr[t].pc = "coll_lock"
    /\ collLock = NoThread
    /\ collLock' = t
    /\ Goto(t, "coll_op")
    /\ UNCHANGED <<vfs, collection, opaques, hasMgr, mgrLock>>

\* mount: .add(&cmd.mountpoint, &cmd)? and the end of the statement.
MountAdd(t) ==
    /\ thr[t].op = "mount" /\ thr[t].pc = "coll_op"
    /\ collLock' = DropGuard(collLock)
    /\ IF CollectionAddOk(thr[t].cmd)
       THEN \E now \in 0..MaxClock :
              /\ collection' = CollectionAdd(collection, thr[t].cmd.mountpoint,
                                             thr[t].cmd, now)
              /\ AfterCollection(t)
       ELSE /\ Ret(t, "Serde")
            /\ UNCHANGED collection
    /\ UNCHANGED <<vfs, opaques, hasMgr, mgrLock>>

\* umount: .del(&cmd.mountpoint) and the end of the statement.
UmountDel(t) ==
    /\ thr[t].op = "umount" /\ thr[t].pc = "coll_op"
    /\ collLock' = DropGuard(collLock)
    /\ collection' = CollectionDel(collection, thr[t].cmd.mountpoint)
    /\ AfterCollection(t)
    /\ UNCHANGED <<vfs, opaques, hasMgr, mgrLock>>

\* export_info: .deref().clone(), the end of the statement, to_string.
ExportClone(t) ==
    /\ thr[t].op = "export_info" /\ thr[t].pc = "coll_op"
    /\ collLock' = DropGuard(collLock)
    /\ \E serdeOk \in BOOLEAN : Ret(t, IF serdeOk THEN Ok ELSE "Serde")
    /\ UNCHANGED <<vfs, collection, opaques, hasMgr, mgrLock>>

\* self.upgrade_mgr() returning Some: blocks until the Mutex is free.
MgrLock(t) ==
    /\ thr[t].pc = "mgr_lock"
    /\ mgrLock = NoThread
    /\ mgrLock' = t
    /\ Goto(t, "mgr_op")
    /\ UNCHANGED <<vfs, collection, opaques, hasMgr, collLock>>

\* upgrade::add_mounts_state / update_mounts_state / remove_mounts_state
\* under the guard, the ? and the end of the if-let block.
MgrOp(t) ==
    /\ thr[t].pc = "mgr_op"
    /\ mgrLock' = DropGuard(mgrLock)
    /\ \E mgrOk \in BOOLEAN :
         LET cmd == thr[t].cmd
             mp == cmd.mountpoint
             ok == mgrOk /\ (thr[t].op = "remount" => mp \in DOMAIN opaques)
         IN /\ opaques' = IF ~ok THEN opaques
                          ELSE IF thr[t].op = "mount"
                               THEN AddMountsState(opaques, cmd, VfsIndex(mp))
                          ELSE IF thr[t].op = "remount"
                               THEN UpdateMountsState(opaques, cmd)
                          ELSE RemoveMountsState(opaques, mp)
            /\ Ret(t, IF ok THEN Ok ELSE "UpgradeManager")
    /\ UNCHANGED <<vfs, collection, hasMgr, collLock>>

\* One step of a call that is under way.
Step(t) ==
    \/ MountLookup(t) \/ MountVfs(t) \/ MountAdd(t)
    \/ UmountLookupStep(t) \/ UmountVfs(t) \/ UmountDel(t)
    \/ RemountLookup(t) \/ RemountUpdate(t)
    \/ ExportClone(t)
    \/ CollLock(t) \/ MgrLock(t) \/ MgrOp(t)

(***************************************************************************)
(* NydusDaemonSubscriber: the event loop calls init once and then process  *)
(* with the readiness it saw on the event fd, a set of EventSet bits.      *)
(***************************************************************************)
EventSetBits == {"IN", "ERROR", "HANG_UP"}

\* What the event loop can report: at least one bit.
ReportedSets == (SUBSET EventSetBits) \ {{}}

NoEvents == [events |-> {}, read_ok |-> FALSE, arm |-> "none", calls |-> <<>>]

InitSubscriber ==
    /\ event_manager_run = TRUE
    /\ registration = "none"
    /\ processed = NoEvents
    /\ nprocessed = 0

\* match events.event_set() { EventSet::IN => .. EventSet::ERROR => ..
\* EventSet::HANG_UP => .. _ => {} }: a constant pattern matches the set
\* that is equal to it.
MatchArm(events) ==
    CASE events = {"IN"} -> "IN"
      [] events = {"ERROR"} -> "ERROR"
      [] events = {"HANG_UP"} -> "HANG_UP"
      [] OTHER -> "_"

\* EventSubscriber::init: ops.add(Events::new(&self.event_fd, EventSet::IN))
SubscriberInit ==
    /\ registration = "none"
    /\ registration' = "registered"
    /\ UNCHANGED <<event_manager_run, processed, nprocessed>>

\* EventSubscriber::process: the read of the event fd, whose error is
\* dropped, then the match; event_ops.remove may fail, which is logged.
Process(events, readOk, removeOk) ==
    LET arm == MatchArm(events)
    IN /\ registration = "registered"
       /\ nprocessed < MaxProcessed
       /\ nprocessed' = nprocessed + 1
       /\ event_manager_run' = IF arm = "IN" THEN FALSE ELSE event_manager_run
       /\ registration' = IF arm = "HANG_UP" /\ removeOk THEN "removed" ELSE registration
       /\ processed' = [events |-> events, read_ok |-> readOk, arm |-> arm,
                        calls |-> <<"read">> \o
                                  (CASE arm = "IN" -> <<"store(false)">>
                                     [] arm = "ERROR" -> <<"error!">>
                                     [] arm = "HANG_UP" -> <<"remove">>
                                     [] OTHER -> <<>>)]

InitSide == InitTakeover /\ InitConc /\ InitSubscriber

(***************************************************************************)
(* Specifications.                                                         *)
(***************************************************************************)
Init == InitPump /\ InitMount /\ ncalls = 0 /\ InitConv /\ InitSide

\* The lifecycle: submitters and the pump thread.
Next ==
    \/ (\E input \in DaemonStateMachineInput : Submit(input))
          /\ UNCHANGED <<mountVars, ncalls, convVars, sideVars>>
    \/ PumpRecv /\ UNCHANGED <<mountVars, ncalls, convVars, sideVars>>
    \/ PumpAction /\ UNCHANGED <<mountVars, ncalls, convVars, sideVars>>
    \/ PumpSend /\ UNCHANGED <<mountVars, ncalls, convVars, sideVars>>

Spec == Init /\ [][Next]_vars

\* The pump thread keeps running as long as it has a step to take.
FairSpec == Spec /\ WF_vars(Pump /\ UNCHANGED <<mountVars, ncalls, convVars, sideVars>>)

\* The mount table: facade calls, one at a time.
MountNext ==
    \/ (\E cmd \in FsBackendMountCmd : Mount(cmd)) /\ UNCHANGED <<pumpVars, ncalls, convVars, sideVars>>
    \/ (\E cmd \in FsBackendMountCmd : Remount(cmd)) /\ UNCHANGED <<pumpVars, ncalls, convVars, sideVars>>
    \/ (\E cmd \in FsBackendUmountCmd : Umount(cmd)) /\ UNCHANGED <<pumpVars, ncalls, convVars, sideVars>>

MountSpec == Init /\ [][MountNext]_vars

\* The mount table again, under the commands that differ in their config.
ConfigNext ==
    \/ (\E cmd \in ConfigMountCmd : Mount(cmd)) /\ UNCHANGED <<pumpVars, ncalls, convVars, sideVars>>
    \/ (\E cmd \in ConfigMountCmd : Remount(cmd)) /\ UNCHANGED <<pumpVars, ncalls, convVars, sideVars>>
    \/ (\E cmd \in FsBackendUmountCmd : Umount(cmd)) /\ UNCHANGED <<pumpVars, ncalls, convVars, sideVars>>

ConfigSpec == Init /\ [][ConfigNext]_vars

\* The whole daemon: lifecycle events and facade calls in any order, the
\* facade calls counted.
DaemonNext ==
    \/ (nsubmitted < MaxDaemonEvents /\ \E input \in DaemonStateMachineInput : Submit(input))
          /\ UNCHANGED <<mountVars, ncalls, convVars, sideVars>>
    \/ Pump /\ UNCHANGED <<mountVars, ncalls, convVars, sideVars>>
    \/ (ncalls < MaxCalls /\ ncalls' = ncalls + 1 /\ \E cmd \in FsBackendMountCmd : Mount(cmd))
          /\ UNCHANGED <<pumpVars, convVars, sideVars>>
    \/ (ncalls < MaxCalls /\ ncalls' = ncalls + 1 /\ \E cmd \in FsBackendMountCmd : Remount(cmd))
          /\ UNCHANGED <<pumpVars, convVars, sideVars>>
    \/ (ncalls < MaxCalls /\ ncalls' = ncalls + 1 /\ \E cmd \in FsBackendUmountCmd : Umount(cmd))
          /\ UNCHANGED <<pumpVars, convVars, sideVars>>

DaemonSpec == Init /\ [][DaemonNext]_vars

\* The conversion of integers to DaemonState, on the integers tried.
ConvInit ==
    /\ InitPump /\ InitMount /\ ncalls = 0 /\ InitSide
    /\ from_i \in I32Inputs /\ from_result = NoResult

ConvNext ==
    \/ Convert /\ UNCHANGED <<pumpVars, mountVars, ncalls, sideVars>>
    \/ (\E s \in DaemonState : RoundTrip(s)) /\ UNCHANGED <<pumpVars, mountVars, ncalls, sideVars>>

ConvSpec == ConvInit /\ [][ConvNext]_vars

\* A takeover: events submitted and answered one at a time, then one call of
\* trigger_takeover while the pump is idle.
TakeoverNext ==
    \/ (/\ takeover.pc = "idle" /\ pc = "recv" /\ event_collector = <<>>
        /\ nsubmitted < MaxEvents - 2
        /\ \E input \in DaemonStateMachineInput : Submit(input))
          /\ UNCHANGED <<mountVars, ncalls, convVars, sideVars>>
    \/ Pump /\ UNCHANGED <<mountVars, ncalls, convVars, sideVars>>
    \/ TakeoverSendTakeover /\ UNCHANGED <<mountVars, ncalls, convVars, concVars, subVars>>
    \/ TakeoverRecvTakeover /\ UNCHANGED <<mountVars, ncalls, convVars, concVars, subVars>>
    \/ TakeoverSendSuccessful /\ UNCHANGED <<mountVars, ncalls, convVars, concVars, subVars>>
    \/ TakeoverRecvSuccessful /\ UNCHANGED <<mountVars, ncalls, convVars, concVars, subVars>>

TakeoverSpec == Init /\ [][TakeoverNext]_vars

\* The facade under concurrent calls.
ConcOther == <<pumpVars, lastOp, rtPre, ncalls, convVars, takeover, subVars>>

ConcNext ==
    \/ (\E t \in Threads : \E cmd \in ConcMountCmd : Call(t, "mount", cmd))
          /\ UNCHANGED ConcOther
    \/ (\E t \in Threads : \E cmd \in ConcMountCmd : Call(t, "remount", cmd))
          /\ UNCHANGED ConcOther
    \/ (\E t \in Threads : \E cmd \in ConcUmountCmd : Call(t, "umount", cmd))
          /\ UNCHANGED ConcOther
    \/ (\E t \in Threads : Call(t, "export_info", [mountpoint |-> "none"]))
          /\ UNCHANGED ConcOther
    \/ (\E t \in Threads : Step(t)) /\ UNCHANGED ConcOther

ConcSpec == Init /\ [][ConcNext]_vars

\* The shutdown subscriber under the event loop.
SubscriberOther == <<pumpVars, mountVars, ncalls, convVars, takeover, concVars>>

SubscriberNext ==
    \/ SubscriberInit /\ UNCHANGED SubscriberOther
    \/ (\E events \in ReportedSets : \E readOk, removeOk \in BOOLEAN :
            Process(events, readOk, removeOk))
          /\ UNCHANGED SubscriberOther

SubscriberSpec == Init /\ [][SubscriberNext]_vars

\* The mount table under mount and umount calls that all return Ok, one at
\* a time.
OkNext ==
    \/ (\E cmd \in FsBackendMountCmd : Mount(cmd) /\ lastOp'.result = Ok)
          /\ UNCHANGED <<pumpVars, ncalls, convVars, sideVars>>
    \/ (\E cmd \in FsBackendUmountCmd : Umount(cmd) /\ lastOp'.result = Ok)
          /\ UNCHANGED <<pumpVars, ncalls, convVars, sideVars>>

OkSpec == Init /\ [][OkNext]_vars

(***************************************************************************)
(* Properties of the lifecycle (checked under Spec and FairSpec).          *)
(***************************************************************************)
\* The documented transition table, <<state, input, target, action>>, in the
\* code's names: Stopped is Die, Disconnect is Umount, TerminateService is
\* TerminateFuseService.
DocumentedTable ==
    {<<"Init", "Mount", "Running", "StartService">>,
     <<"Init", "Takeover", "Upgrading", "Restore">>,
     <<"Init", "Stop", "Die", "Umount">>,
     <<"Running", "Exit", "Interrupted", "TerminateFuseService">>,
     <<"Running", "Stop", "Die", "Umount">>,
     <<"Upgrading", "Successful", "Running", "StartService">>,
     <<"Interrupted", "Stop", "Die", "None">>}

Documented(s, i) == \E t \in DocumentedTable : t[1] = s /\ t[2] = i

DocumentedTarget(s, i) == (CHOOSE t \in DocumentedTable : t[1] = s /\ t[2] = i)[3]

\* The error the action's fallible hook returns.
ErrorOfAction(a) ==
    CASE a = "StartService" -> HookError("start")
      [] a = "Umount" -> HookError("disconnect")
      [] a = "Restore" -> HookError("restore")
      [] OTHER -> "never"

\* DaemonState as the state machine's state reads (Die is STOPPED).
ObservableOf(s) ==
    CASE s = "Init" -> "INIT"
      [] s = "Running" -> "RUNNING"
      [] s = "Upgrading" -> "UPGRADING"
      [] s = "Interrupted" -> "INTERRUPTED"
      [] OTHER -> "STOPPED"

Replies(n) == {k \in DOMAIN result_sender : result_sender[k].id = n}

\* C1: the state machine starts in Init, and whatever (state, input) pair
\* the pump feeds it, the pair is accepted exactly when the documented table
\* lists it, and then with the listed target and action; every other pair is
\* rejected and leaves the state where it was.
C1_TransitionTable ==
    /\ (it.id = 0 => sm = "Init")
    /\ (it.id > 0 =>
          /\ it.accepted <=> Documented(it.last, it.input)
          /\ (it.accepted /\ pc = "action") =>
                <<it.last, it.input, sm, it.action>> \in DocumentedTable
          /\ ~it.accepted => (pc = "panicked" /\ sm = it.last))

\* C1 witness: Successful was accepted in Upgrading and replied to, and then
\* Takeover was rejected in Running.
C1_Witness ==
    /\ done.last = "Upgrading" /\ done.input = "Successful" /\ done.r = Ok
    /\ pc = "panicked" /\ it.last = "Running" /\ it.input = "Takeover"

\* C2: once the pump has replied to an accepted event, the state machine is
\* in the table's target state if the action succeeded, and back in the state
\* snapshotted before the event if it failed, the reply being the action's error.
C2_ReplyMatchesOutcome ==
    (pc = "recv" /\ done.id > 0 /\ done.accepted) =>
        LET reply == result_sender[Len(result_sender)]
        IN /\ reply.id = done.id
           /\ reply.r = Ok => sm = DocumentedTarget(done.last, done.input)
           /\ reply.r # Ok => (sm = done.last /\ reply.r = ErrorOfAction(done.action))

\* C2 witness: Stop in Running was answered with disconnect's error and the
\* state machine is in Running again, after an earlier event had succeeded.
C2_Witness ==
    /\ pc = "recv" /\ done.last = "Running" /\ done.input = "Stop"
    /\ done.r = HookError("disconnect") /\ sm = "Running"
    /\ \E k \in DOMAIN result_sender : result_sender[k].r = Ok

\* C3: after every event the pump answered with Ok, the observable
\* DaemonState is the state machine's state (Die read as STOPPED).
C3_LockStep ==
    (pc = "recv" /\ done.id > 0 /\ done.r = Ok) => daemonState = ObservableOf(sm)

\* C4: when an action other than Restore fails, the observable DaemonState is
\* what it was when the pump took the event (and, for an event submitted
\* while nothing else was queued or in progress, what it was at submission),
\* and the state machine is back in the old state too.
C4_FailedActionKeepsState ==
    (pc = "recv" /\ done.id > 0 /\ done.r # Ok /\ done.action # "Restore") =>
        /\ daemonState = done.pre
        /\ done.alone => daemonState = done.obs
        /\ sm = done.last

\* C4 witness: Stop in Running with a failing disconnect; both are Running.
C4_Witness ==
    /\ pc = "recv" /\ done.input = "Stop" /\ done.last = "Running" /\ done.alone
    /\ done.r = HookError("disconnect")
    /\ daemonState = "RUNNING" /\ sm = "Running"

\* C5 as stated, in the form a finite run refutes: whenever the pump has no
\* step left to take (it waits on an empty queue, or its thread is gone),
\* every submitted event has exactly one reply, listed for its state or not.
C5_EveryEventReplied ==
    (pc = "panicked" \/ (pc = "recv" /\ event_collector = <<>>)) =>
        \A n \in 1..nsubmitted : Cardinality(Replies(n)) = 1

\* C5 amended: no event ever has two replies; the event the pump terminated
\* on (an input not listed for the current state), like every later one, has
\* none; and unless the pump has terminated that way, again and again every
\* event submitted so far has exactly one reply.
C5_EveryEventRepliedUnlessPanicked ==
    /\ [](\A n \in 1..MaxEvents : Cardinality(Replies(n)) <= 1)
    /\ [](pc = "panicked" => \A n \in it.id..MaxEvents : Replies(n) = {})
    /\ []<>(pc = "panicked" \/ \A n \in 1..nsubmitted : Cardinality(Replies(n)) = 1)

\* C5 witness: four events are answered, the first with an error and the
\* last for the action-less transition, and the pump waits for more.
C5_Witness ==
    /\ Len(result_sender) = 4 /\ nsubmitted = 4
    /\ result_sender[1].r # Ok
    /\ done.action = NoOutput /\ done.id = 4 /\ pc = "recv"

\* C6: replies come in submission order: the k-th reply belongs to the k-th
\* submitted event, the event in progress is the one after the last reply,
\* and the events still queued follow it in order.
C6_RepliesInSubmissionOrder ==
    /\ \A k \in DOMAIN result_sender : result_sender[k].id = k
    /\ pc \in {"action", "send"} => it.id = Len(result_sender) + 1
    /\ pc = "recv" => done.id = Len(result_sender)
    /\ pc # "panicked" =>
          \A j \in DOMAIN event_collector :
              event_collector[j].id =
                  Len(result_sender) + (IF pc = "recv" THEN 0 ELSE 1) + j

\* C6 witness: two replies are out, the third event's action is running and
\* a fourth event waits in the queue.
C6_Witness ==
    /\ Len(result_sender) = 2 /\ pc = "action" /\ it.id = 3
    /\ Len(event_collector) = 1

(***************************************************************************)
(* Properties of the mount table (checked under MountSpec).                *)
(***************************************************************************)
Range(f) == {f[x] : x \in DOMAIN f}

HasIllegalEntry(prefetch_files) ==
    /\ prefetch_files # <<>>
    /\ \E j \in DOMAIN prefetch_files[1] :
          \/ prefetch_files[1][j] = <<>>
          \/ Head(prefetch_files[1][j]) # "/"

\* C7: every mountpoint of the Mount Registry is mounted in the virtual root.
C7_RegistryImpliesMounted == \A m \in DOMAIN collection : m \in DOMAIN vfs

\* C7 witness: a umount failed at the upgrade manager while another
\* mountpoint stays registered.
C7_Witness ==
    /\ lastOp.op = "umount" /\ lastOp.result = "UpgradeManager"
    /\ DOMAIN collection # {}

\* C8: a mount on a mountpoint the virtual root already has fails with
\* AlreadyMounted, builds no backend and leaves the virtual root, the registry
\* and the upgrade manager's opaques as they were.
C8_AlreadyMountedChangesNothing ==
    [][(lastOp'.op = "mount" /\ lastOp'.mountpoint \in DOMAIN vfs) =>
          /\ lastOp'.result = "Vfs(AlreadyMounted)"
          /\ "fs_backend_factory" \notin Range(lastOp'.calls)
          /\ UNCHANGED <<vfs, collection, opaques>>]_vars

\* C8 witness: a mount was refused for a registered mountpoint.
C8_Witness ==
    /\ lastOp.op = "mount" /\ lastOp.result = "Vfs(AlreadyMounted)"
    /\ lastOp.mountpoint \in DOMAIN collection

\* C9 as stated: a mount with an illegal prefetch entry fails with
\* Common("Illegal prefetch list") and changes nothing, mounted or not.
C9_IllegalPrefetchAlwaysCommon ==
    [][(lastOp'.op = "mount" /\ HasIllegalEntry(lastOp'.prefetch_files)) =>
          /\ lastOp'.result = "Common(Illegal prefetch list)"
          /\ UNCHANGED <<vfs, collection, opaques>>]_vars

\* C9 amended: a mount with an illegal prefetch entry changes nothing; it
\* fails with Common("Illegal prefetch list") when the mountpoint is not
\* mounted and with AlreadyMounted when it is.
C9_IllegalPrefetchRejected ==
    [][(lastOp'.op = "mount" /\ HasIllegalEntry(lastOp'.prefetch_files)) =>
          /\ lastOp'.result = IF lastOp'.mountpoint \in DOMAIN vfs
                               THEN "Vfs(AlreadyMounted)"
                               ELSE "Common(Illegal prefetch list)"
          /\ UNCHANGED <<vfs, collection, opaques>>]_vars

\* C9 witness: the prefetch list was refused while the other mountpoint is
\* mounted and recorded.
C9_Witness ==
    /\ lastOp.op = "mount" /\ lastOp.result = "Common(Illegal prefetch list)"
    /\ DOMAIN vfs # {} /\ DOMAIN opaques # {}

\* After a successful mount on an unmounted mountpoint, the mountpoint is in
\* the virtual root and the registry, a passthrough one with a null config.
MountedAfterMount ==
    rtPre.stage = "mounted" =>
        /\ rtPre.mountpoint \notin rtPre.mounted
        /\ rtPre.mountpoint \in DOMAIN vfs
        /\ rtPre.mountpoint \in DOMAIN collection
        /\ collection[rtPre.mountpoint].backend_type = "PassthroughFs" =>
              collection[rtPre.mountpoint].config = JNull

\* C10 as stated: mount then umount restores the mounted set, the registry's
\* keys and the upgrade manager's opaques.
C10_RoundTripRestoresAll ==
    [][/\ MountedAfterMount'
       /\ (rtPre.stage = "mounted" /\ rtPre'.stage = "unmounted") =>
             /\ DOMAIN vfs' = rtPre.mounted
             /\ DOMAIN collection' = rtPre.keys
             /\ opaques' = rtPre.opaques]_vars

\* C10 amended: mount then umount restores the mounted set and the
\* registry's keys, and leaves the opaques as they were before the mount
\* except that an opaque recorded for the mountpoint itself is gone.
C10_RoundTrip ==
    [][/\ MountedAfterMount'
       /\ (rtPre.stage = "mounted" /\ rtPre'.stage = "unmounted") =>
             /\ DOMAIN vfs' = rtPre.mounted
             /\ rtPre.mountpoint \notin DOMAIN vfs'
             /\ DOMAIN collection' = rtPre.keys
             /\ opaques' = MapDel(rtPre.opaques, rtPre.mountpoint)]_vars

\* C10 witness: a passthrough mount and its umount, both Ok, with an upgrade
\* manager and the other mountpoint mounted throughout.
C10_Witness ==
    /\ rtPre.stage = "unmounted" /\ hasMgr /\ DOMAIN vfs # {}
    /\ lastOp.op = "umount" /\ lastOp.result = Ok

\* The collaborators a umount reaches after the lookup.
UmountSteps == {"vfs.umount", "del", "remove_mounts_state"}

\* C11 as stated: a umount of a mountpoint the virtual root does not have
\* fails with NotFound, calls neither the virtual root's umount nor the
\* registry nor the upgrade manager, and changes nothing.
C11_UmountAbsentNotFound ==
    [][(lastOp'.op = "umount" /\ lastOp'.mountpoint \notin DOMAIN vfs) =>
          /\ lastOp'.result = "NotFound"
          /\ Range(lastOp'.calls) \cap UmountSteps = {}
          /\ UNCHANGED <<vfs, collection, opaques>>]_vars

\* C11 amended: such a umount fails with Vfs(Common(e)), e being the error of
\* the virtual root's lookup; it calls nothing but the lookup and changes
\* nothing.
C11_UmountAbsentFails ==
    [][(lastOp'.op = "umount" /\ lastOp'.mountpoint \notin DOMAIN vfs) =>
          /\ lastOp'.result = "Vfs(Common)"
          /\ lastOp'.calls = <<"get_rootfs">>
          /\ UNCHANGED <<vfs, collection, opaques>>]_vars

\* C11 witness: a umount of an absent mountpoint was refused while the other
\* mountpoint is mounted, registered and recorded.
C11_Witness ==
    /\ lastOp.op = "umount" /\ lastOp.result = "Vfs(Common)"
    /\ lastOp.mountpoint \notin DOMAIN vfs
    /\ DOMAIN vfs # {} /\ DOMAIN collection # {} /\ DOMAIN opaques # {}

\* C12: a remount that returns Ok leaves the registry's key set as it was
\* and replaces the descriptor of its mountpoint: the descriptor's config is
\* the sanitized form of the config the backend now runs with.
C12_RemountReplacesDescriptor ==
    [][(lastOp'.op = "remount" /\ lastOp'.result = Ok) =>
          /\ DOMAIN collection' = DOMAIN collection
          /\ lastOp'.mountpoint \in DOMAIN collection'
          /\ collection'[lastOp'.mountpoint].config =
                Sanitize(ParseJson(vfs'[lastOp'.mountpoint].backend.config).value)]_vars

\* C13 as stated: a remount on a mountpoint whose backend is not an Image
\* (Rafs) backend fails with FsTypeMismatch("to rafs") whatever the command's
\* config and source are, a remount on an absent mountpoint fails with
\* NotFound, and both change nothing.
C13_RemountMismatchOrNotFound ==
    [][lastOp'.op = "remount" =>
          /\ lastOp'.mountpoint \notin DOMAIN vfs =>
                /\ lastOp'.result = "NotFound"
                /\ UNCHANGED <<vfs, collection, opaques>>
          /\ (/\ lastOp'.mountpoint \in DOMAIN vfs
              /\ vfs[lastOp'.mountpoint].backend.kind # "Rafs") =>
                /\ lastOp'.result = "FsTypeMismatch(to rafs)"
                /\ UNCHANGED <<vfs, collection, opaques>>]_vars

\* C13 amended: on an absent mountpoint the remount fails with
\* Vfs(Common(e)) right after the lookup; on a backend that is not Rafs it
\* fails with FsTypeMismatch("to rafs") once the command's config was parsed
\* and its source opened, and with the Rafs error of the parse or the open
\* otherwise; it never reaches the update, and nothing changes.
C13_RemountMismatchAfterParse ==
    [][lastOp'.op = "remount" =>
          /\ lastOp'.mountpoint \notin DOMAIN vfs =>
                /\ lastOp'.result = "Vfs(Common)"
                /\ lastOp'.calls = <<"get_rootfs">>
                /\ UNCHANGED <<vfs, collection, opaques>>
          /\ (/\ lastOp'.mountpoint \in DOMAIN vfs
              /\ vfs[lastOp'.mountpoint].backend.kind # "Rafs") =>
                /\ \/ /\ lastOp'.result = "FsTypeMismatch(to rafs)"
                      /\ lastOp'.calls =
                            <<"get_rootfs", "RafsConfig::from_str", "RafsIoRead::from_file">>
                   \/ /\ lastOp'.result = "Rafs"
                      /\ lastOp'.calls \in
                            {<<"get_rootfs", "RafsConfig::from_str">>,
                             <<"get_rootfs", "RafsConfig::from_str",
                               "RafsIoRead::from_file">>}
                /\ UNCHANGED <<vfs, collection, opaques>>]_vars

\* C13 witness: a remount of a mounted, recorded passthrough backend was
\* refused with FsTypeMismatch.
C13_Witness ==
    /\ lastOp.op = "remount" /\ lastOp.result = "FsTypeMismatch(to rafs)"
    /\ lastOp.mountpoint \in DOMAIN vfs
    /\ vfs[lastOp.mountpoint].backend.kind = "PassthroughFs"
    /\ lastOp.mountpoint \in DOMAIN opaques

(***************************************************************************)
(* Properties of the stored descriptors (checked under ConfigSpec).        *)
(***************************************************************************)
HasKey(v, k) == IsObj(v) /\ k \in DOMAIN v.obj

\* device.backend.config of a descriptor's config
BackendConfigOf(config) ==
    JsonIndex(JsonIndex(JsonIndex(config, "device"), "backend"), "config")

\* The keys that hold secrets, by device.backend.type.
SecretKeys(type) ==
    CASE type = JStr("oss") -> {"access_key_id", "access_key_secret"}
      [] type = JStr("registry") -> {"auth", "registry_token"}
      [] OTHER -> {}

\* The secret values of the configs tried.
SecretValues == {"key-id", "key-secret", "secret", "token"}

RECURSIVE JsonStrings(_)
\* Every string value that occurs in a JSON value.
JsonStrings(v) ==
    IF "str" \in DOMAIN v THEN {v.str}
    ELSE IF IsObj(v) THEN UNION {JsonStrings(v.obj[k]) : k \in DOMAIN v.obj}
    ELSE {}

\* C14 as stated: the descriptor export_info shows for a Rafs mount has none
\* of the secret keys of its backend type under device.backend.config, and
\* none of the secret values anywhere.
C14_NoSecretKeys ==
    \A desc \in Range(ExportInfo.backend_collection) :
        desc.backend_type = "Rafs" =>
            /\ \A k \in SecretKeys(BackendTypeOf(desc.config)) :
                  ~HasKey(BackendConfigOf(desc.config), k)
            /\ JsonStrings(desc.config) \cap SecretValues = {}

\* C14 amended: the descriptor keeps each secret key of its backend type
\* under device.backend.config, with the value null, and holds none of the
\* secret values anywhere.
C14_SecretsNulled ==
    \A desc \in Range(ExportInfo.backend_collection) :
        desc.backend_type = "Rafs" =>
            /\ \A k \in SecretKeys(BackendTypeOf(desc.config)) :
                  /\ HasKey(BackendConfigOf(desc.config), k)
                  /\ BackendConfigOf(desc.config).obj[k] = JNull
            /\ JsonStrings(desc.config) \cap SecretValues = {}

\* C14 witness: an oss mount and a registry mount are both registered.
C14_Witness ==
    /\ \E desc \in Range(collection) : BackendTypeOf(desc.config) = JStr("oss")
    /\ \E desc \in Range(collection) : BackendTypeOf(desc.config) = JStr("registry")

(***************************************************************************)
(* Properties of the whole daemon (checked under DaemonSpec).              *)
(***************************************************************************)
\* A Stop event was answered with Ok and the daemon is STOPPED.
StopCompleted ==
    /\ daemonState = "STOPPED"
    /\ done.input = "Stop" /\ done.r = Ok
    /\ [id |-> done.id, r |-> Ok] \in Range(result_sender)

\* C15: once a Stop event has completed successfully, every mount call
\* fails and adds nothing to the registry or the upgrade manager's opaques.
C15_NoMountAfterStop ==
    [][(StopCompleted /\ ncalls' = ncalls + 1 /\ lastOp'.op = "mount") =>
          /\ lastOp'.result # Ok
          /\ UNCHANGED <<collection, opaques>>]_vars

(***************************************************************************)
(* More properties of the lifecycle (checked under Spec).                  *)
(***************************************************************************)
\* C16: Stop is accepted in Init, Running, Upgrading and Interrupted, and
\* once it was answered with Ok the observable DaemonState is STOPPED, also
\* on the path Exit, Interrupted, Stop.
C16_StopEndsStopped ==
    /\ (it.id > 0 /\ it.input = "Stop"
          /\ it.last \in {"Init", "Running", "Upgrading", "Interrupted"}) => it.accepted
    /\ (pc = "recv" /\ done.id > 0 /\ done.input = "Stop" /\ done.r = Ok) =>
          daemonState = "STOPPED"

(***************************************************************************)
(* Properties of the integer mapping (checked under ConvSpec).             *)
(***************************************************************************)
\* The documented numbers of the states.
DocumentedInt ==
    [INIT |-> 1, RUNNING |-> 2, UPGRADING |-> 3, INTERRUPTED |-> 4, STOPPED |-> 5,
     UNKNOWN |-> 6]

\* C17: every state has its documented number, the conversion from an
\* integer gives back the state whose number it is, and gives UNKNOWN for
\* every integer outside 1..5.
C17_IntRoundTrip ==
    /\ \A s \in DaemonState : ToInt(s) = DocumentedInt[s]
    /\ from_result # NoResult =>
          /\ from_result \in DaemonState
          /\ \A s \in DaemonState : from_i = DocumentedInt[s] => from_result = s
          /\ from_i \notin 1..5 => from_result = "UNKNOWN"

\* C17 witness: STOPPED went to 5 and 5 came back as STOPPED.
C17_Witness == from_i = ToInt("STOPPED") /\ from_i = 5 /\ from_result = "STOPPED"

UnlistedTaken == it.id > 0 /\ ~Documented(it.last, it.input)

\* C19: once the pump has taken an input that is not listed for the current
\* state, its thread is gone: no daemon hook was called for the event, the
\* observable DaemonState and the state machine are as the pump found them,
\* and from then on the pump takes no event, sends no reply and changes no
\* state; events may still queue up.
C19_UnlistedInputStopsPump ==
    /\ [](UnlistedTaken =>
            /\ pc = "panicked"
            /\ it.calls = <<>>
            /\ daemonState = it.pre
            /\ sm = it.last
            /\ Replies(it.id) = {})
    /\ [][UnlistedTaken =>
            /\ UNCHANGED <<pc, it, done, sm, daemonState, result_sender>>
            /\ Len(event_collector') >= Len(event_collector)]_vars

\* C19 witness: after one answered event the pump died on the second, and a
\* third event waits in the queue for ever.
C19_Witness ==
    /\ pc = "panicked" /\ it.id = 2 /\ Len(result_sender) = 1
    /\ \E j \in DOMAIN event_collector : event_collector[j].id = 3

\* C20: Restore calls set_state(UPGRADING) and then restore; after a failed
\* restore the observable DaemonState is UPGRADING, the state machine is
\* back in Init, and the next event, if it is Mount, Takeover or Stop, is
\* accepted.
C20_RestoreSetsUpgradingFirst ==
    /\ (pc = "send" /\ it.action = "Restore") =>
          /\ it.calls = <<"set_state", "restore">>
          /\ daemonState = "UPGRADING"
    /\ (pc = "recv" /\ done.action = "Restore" /\ done.r # Ok) =>
          /\ done.last = "Init" /\ done.input = "Takeover"
          /\ daemonState = "UPGRADING"
          /\ sm = "Init"
    /\ (/\ done.action = "Restore" /\ done.r # Ok /\ it.id = done.id + 1
        /\ it.input \in {"Mount", "Takeover", "Stop"}) =>
          it.accepted /\ pc # "panicked"

\* C20 witness: restore failed, and the Takeover submitted next was accepted
\* while the observable state still reads UPGRADING.
C20_Witness ==
    /\ done.action = "Restore" /\ done.r = HookError("restore")
    /\ it.id = done.id + 1 /\ it.input = "Takeover" /\ pc = "action"
    /\ sm = "Upgrading" /\ daemonState = "UPGRADING"

(***************************************************************************)
(* Properties of trigger_takeover (checked under TakeoverSpec).            *)
(***************************************************************************)
\* C21: trigger_takeover submits Takeover and submits Successful only after
\* the reply to Takeover was a success.  Called in Init with restore and
\* start succeeding, restore is invoked before start and the call ends with
\* the state machine and the observable state at Running; when Takeover
\* fails, Successful is never submitted and start never invoked; when start
\* fails on Successful, that error is returned and the state machine stays
\* in Upgrading.
C21_TakeoverThenSuccessful ==
    /\ takeover.pc # "idle" => takeover.sent[1] = "Takeover"
    /\ Len(takeover.sent) = 2 =>
          /\ takeover.sent[2] = "Successful"
          /\ takeover.first = Ok
    /\ takeover.first \notin {"none", Ok} =>
          /\ takeover.pc = "returned"
          /\ takeover.result = takeover.first
          /\ takeover.sent = <<"Takeover">>
          /\ nsubmitted = takeover.id
          /\ \A j \in DOMAIN takeover.calls : takeover.calls[j] # "start"
    /\ (takeover.called_in = "Init" /\ takeover.pc = "returned") =>
          /\ takeover.result = Ok =>
                /\ takeover.calls = <<"set_state", "restore", "start", "set_state">>
                /\ sm = "Running"
                /\ daemonState = "RUNNING"
          /\ takeover.result = HookError("restore") =>
                /\ takeover.first = HookError("restore")
                /\ sm = "Init"
          /\ takeover.result = HookError("start") =>
                /\ takeover.first = Ok
                /\ sm = "Upgrading"
                /\ daemonState = "UPGRADING"
          /\ takeover.result \in {Ok, HookError("restore"), HookError("start")}

\* A takeover called in Init whose restore succeeded and whose start failed.
C21_Witness ==
    /\ takeover.pc = "returned"
    /\ takeover.called_in = "Init"
    /\ takeover.sent = <<"Takeover", "Successful">>
    /\ takeover.result = HookError("start")
    /\ sm = "Upgrading"

(***************************************************************************)
(* More properties of the mount table (checked under MountSpec).           *)
(***************************************************************************)
FailedAfterInsert(op) ==
    /\ op.op = "mount"
    /\ op.result \in {"Serde", "UpgradeManager"}

\* C22 as stated: a mount that fails at the registry add or at the upgrade
\* manager's add, after the virtual-root insert succeeded, returns the error
\* and leaves the mountpoint mounted; after a failure at the upgrade manager
\* the mountpoint is in the virtual root and in the registry but not in the
\* upgrade manager; a retried mount of it fails with AlreadyMounted.
C22_FailedMountNotInManager ==
    [][/\ (FailedAfterInsert(lastOp') /\ lastOp'.mountpoint \notin DOMAIN vfs) =>
             /\ lastOp'.mountpoint \in DOMAIN vfs'
             /\ lastOp'.result = "UpgradeManager" =>
                   /\ lastOp'.mountpoint \in DOMAIN collection'
                   /\ lastOp'.mountpoint \notin DOMAIN opaques'
       /\ (FailedAfterInsert(lastOp) /\ lastOp'.op = "mount"
              /\ lastOp'.mountpoint = lastOp.mountpoint) =>
             lastOp'.result = "Vfs(AlreadyMounted)"]_vars

\* C22, amended: as above, but the upgrade manager is left exactly as it
\* was before the failed mount, whatever it recorded for the mountpoint.
C22_FailedMountKeepsInsert ==
    [][/\ (FailedAfterInsert(lastOp') /\ lastOp'.mountpoint \notin DOMAIN vfs) =>
             /\ lastOp'.mountpoint \in DOMAIN vfs'
             /\ \A mp \in DOMAIN vfs : mp \in DOMAIN vfs' /\ vfs'[mp] = vfs[mp]
             /\ lastOp'.result = "UpgradeManager" =>
                   /\ lastOp'.mountpoint \in DOMAIN collection'
                   /\ opaques' = opaques
       /\ (FailedAfterInsert(lastOp) /\ lastOp'.op = "mount"
              /\ lastOp'.mountpoint = lastOp.mountpoint) =>
             lastOp'.result = "Vfs(AlreadyMounted)"]_vars

\* A mount of /m has just failed at the upgrade manager: /m is in the
\* virtual root and the registry, and the upgrade manager has no opaque for it.
C22_Witness ==
    /\ lastOp.op = "mount" /\ lastOp.mountpoint = "/m"
    /\ lastOp.result = "UpgradeManager"
    /\ "/m" \in DOMAIN vfs
    /\ "/m" \in DOMAIN collection
    /\ "/m" \notin DOMAIN opaques

(***************************************************************************)
(* Properties of concurrent facade calls (checked under ConcSpec).         *)
(***************************************************************************)
\* C23: within mount, remount, umount and export_info the lock of the mount
\* registry and the lock of the upgrade manager are each released before
\* the call returns, on every path; no call holds both locks at once; and
\* whatever the interleaving, as long as a call is under way some call can
\* take a step: there is no deadlock.
C23_LocksScoped ==
    /\ \A t \in Threads :
          /\ ~(collLock = t /\ mgrLock = t)
          /\ thr[t].pc = "idle" => (collLock # t /\ mgrLock # t)
          /\ collLock = t => thr[t].pc = "coll_op"
          /\ mgrLock = t => thr[t].pc = "mgr_op"
    /\ (\E t \in Threads : thr[t].pc # "idle") => ENABLED (\E t \in Threads : Step(t))

\* One thread is inside the registry's lock while the other is inside the
\* upgrade manager's, and both calls are mounts.
C23_Witness ==
    /\ collLock = "t1" /\ thr["t1"].pc = "coll_op" /\ thr["t1"].op = "mount"
    /\ mgrLock = "t2" /\ thr["t2"].pc = "mgr_op" /\ thr["t2"].op = "mount"

\* C25: when a mount(m) and a umount(m), or two such calls on one
\* mountpoint, run on different threads and their steps interleave in any
\* order, then once the calls have returned every mountpoint in the mount
\* registry is mounted in the virtual root.
C25_RegistryImpliesMountedConcurrently ==
    (\A t \in Threads : thr[t].pc = "idle") =>
        \A mp \in DOMAIN collection : mp \in DOMAIN vfs

\* C26: when two mounts of one unmounted mountpoint run on different
\* threads, at most one of them inserts a backend into the virtual root and
\* the other fails with AlreadyMounted; that is, no mount calls the virtual
\* root's mount for a mountpoint that is mounted at the moment of the call.
C26_NoMountOverMounted ==
    [][\A t \in Threads :
          (thr[t].op = "mount" /\ thr[t].pc = "vfs_mount" /\ thr'[t].pc # "vfs_mount") =>
              thr[t].cmd.mountpoint \notin DOMAIN vfs]_vars

(***************************************************************************)
(* Properties of the shutdown subscriber (checked under SubscriberSpec).   *)
(***************************************************************************)
\* C24: whenever the event fd is reported ready for input, the shutdown
\* flag EVENT_MANAGER_RUN is set to false; on error readiness the flag and
\* the registration are unchanged; on hangup the subscriber asks the event
\* loop to remove its registration; and the flag is never set back to true.
C24_ReactsToReadiness ==
    [][nprocessed' = nprocessed + 1 =>
          /\ "IN" \in processed'.events => event_manager_run' = FALSE
          /\ processed'.events = {"ERROR"} =>
                /\ event_manager_run' = event_manager_run
                /\ registration' = registration
          /\ "HANG_UP" \in processed'.events =>
                \E j \in DOMAIN processed'.calls : processed'.calls[j] = "remove"
          /\ event_manager_run' => event_manager_run]_vars

(***************************************************************************)
(* Properties of successful calls only (checked under OkSpec).             *)
(***************************************************************************)
\* C27: with an upgrade manager present, after any sequence of mount and
\* umount calls that each returned Ok, run one at a time, the mountpoints
\* that have a mount opaque in the upgrade manager are exactly the keys of
\* the mount registry and exactly the mountpoints mounted in the virtual
\* root; each opaque carries the command and the index of its mount.
C27_ManagerMirrorsMountTable ==
    hasMgr =>
        /\ DOMAIN opaques = DOMAIN collection
        /\ DOMAIN collection = DOMAIN vfs
        /\ \A mp \in DOMAIN opaques :
              /\ opaques[mp].cmd.mountpoint = mp
              /\ opaques[mp].index = vfs[mp].index
              /\ opaques[mp].cmd.fs_type = collection[mp].backend_type

\* /m and /n were mounted and /m was unmounted again: only /n is left, in
\* all three.
C27_Witness ==
    /\ hasMgr
    /\ lastOp.op = "umount" /\ lastOp.mountpoint = "/m" /\ lastOp.result = Ok
    /\ DOMAIN vfs = {"/n"}
    /\ DOMAIN opaques = {"/n"}

(***************************************************************************)
(* The direction of the observable state (checked under Spec).             *)
(***************************************************************************)
LifecycleRank(s) ==
    CASE s = "INIT" -> 1
      [] s = "UPGRADING" -> 2
      [] s = "RUNNING" -> 3
      [] s = "INTERRUPTED" -> 4
      [] OTHER -> 5

\* C28: whatever the events and whichever actions fail, rollbacks of the
\* state machine included, each change of the observable DaemonState goes
\* forward in the order Init, Upgrading, Running, Interrupted, Stopped:
\* Stopped is never left and Running is never entered from Interrupted or
\* Stopped.
C28_ObservableNeverBackwards ==
    [][/\ LifecycleRank(daemonState') >= LifecycleRank(daemonState)
       /\ daemonState = "STOPPED" => daemonState' = "STOPPED"
       /\ (daemonState \in {"INTERRUPTED", "STOPPED"}) => daemonState' # "RUNNING"]_vars

\* A restore failed, leaving Upgrading over a state machine rolled back to
\* Init; a later Mount started the service, an Exit interrupted it, and the
\* fourth event was rejected.
C28_Witness ==
    /\ Len(result_sender) = 3
    /\ result_sender[1].r = HookError("restore")
    /\ result_sender[2].r = Ok
    /\ daemonState = "INTERRUPTED"
    /\ pc = "panicked"

====
